---- MODULE Spec2Model ----
(***************************************************************************)
(* Model of src/src/scooper.ts: getTokenAccounts, findQuotes, sweepTokens. *)
(*                                                                         *)
(* JavaScript is single threaded: an async function runs without           *)
(* interruption up to its next await.  Every action below is one such      *)
(* uninterrupted run (the handling of one response).  The synchronous      *)
(* fan-out of `xs.map(async ...)` is written as one step per element, and  *)
(* no response is handled before the fan-out has finished.                 *)
(*                                                                         *)
(* Caller-supplied callbacks may return or throw; at most MaxThrows calls  *)
(* throw in one run.                                                       *)
(***************************************************************************)
EXTENDS Integers, Sequences, FiniteSets, TLC

\* ---- bounds --------------------------------------------------------------
MaxAccounts == 2
MaxAssets == 2
MaxThrows == 1
MaxLiveAssets == 2

\* ---- value sets drawn for the inputs -------------------------------------
Mints == {"mA", "mB"}
SweepIds == <<"mA", "mB", "mC", "mD">>
Amounts == {0, 50}
NoId == ""
QuoteReason == "Couldn't get quote"
SwapReason == "Couldn't get swap transaction"
SignReason == "Failed signing transactions!"

VARIABLES
  accountsOld,    \* answer of the TOKEN_PROGRAM_ID query
  accountsNew,    \* answer of the token22 query
  tokenList,      \* known tokens, by mint address
  fqPc,           \* position of findQuotes
  assets,         \* result of getTokenAccounts
  fqNext,         \* next element of assets.map to start
  branch,         \* per element of assets: the async arrow function's state
  fqCalls,        \* per id: the callbacks findQuotes invoked with that id
  fqCaught,       \* what the outer catch of findQuotes caught and logged
  wallet,         \* WalletContextState: publicKey / signAllTransactions present
  swAssets,       \* the assets argument of sweepTokens
  swPc,           \* position of sweepTokens
  blockHash,      \* outcome of connection.getLatestBlockhash()
  transactions,   \* the [id, transaction] list
  closeTxs,       \* closeAccountTx values built (locals, never used)
  signReqs,       \* the batches handed to wallet.signAllTransactions
  signed,         \* outcome of the signing request
  swNext,         \* next element of signedTransactions.map to start
  submit,         \* per signed transaction: the async arrow function's state
  swCalls,        \* per id: the callbacks sweepTokens invoked with that id
  thrown          \* number of callback invocations that threw

fqVars == <<accountsOld, accountsNew, tokenList, fqPc, assets, fqNext, branch, fqCalls,
           fqCaught>>
swVars == <<wallet, swAssets, swPc, blockHash, transactions, closeTxs, signReqs, signed, swNext,
           submit, swCalls>>
vars == <<accountsOld, accountsNew, tokenList, fqPc, assets, fqNext, branch, fqCalls,
          fqCaught, wallet, swAssets, swPc, blockHash, transactions, closeTxs, signReqs,
          signed, swNext, submit, swCalls, thrown>>

\* ---- helpers ---------------------------------------------------------------
RECURSIVE SeqsUpTo(_, _)
SeqsUpTo(S, n) ==
  IF n = 0 THEN {<<>>}
  ELSE LET shorter == SeqsUpTo(S, n - 1)
       IN shorter \cup {Append(s, x) : s \in {t \in shorter : Len(t) = n - 1}, x \in S}

Range(s) == {s[k] : k \in 1..Len(s)}

\* n-th throw choice of a handler; a handler draws its choices from 0..MaxThrows
Budget == MaxThrows - thrown

\* ---- getTokenAccounts ------------------------------------------------------
Digit(d) == <<"0", "1", "2", "3", "4", "5", "6", "7", "8", "9">>[d + 1]

RECURSIVE BigIntToString(_)
BigIntToString(n) ==
  IF n < 10 THEN <<Digit(n)>> ELSE Append(BigIntToString(n \div 10), Digit(n % 10))

DigitValue(c) == CHOOSE d \in 0..9 : Digit(d) = c

RECURSIVE StringToNumber(_)
StringToNumber(s) ==
  IF Len(s) = 0 THEN 0
  ELSE 10 * StringToNumber(SubSeq(s, 1, Len(s) - 1)) + DigitValue(s[Len(s)])

TokenInfo(mint) == [address |-> mint]

RECURSIVE FilterKnown(_, _)
FilterKnown(accounts, list) ==
  IF accounts = <<>> THEN <<>>
  ELSE LET account == Head(accounts)
           rest == FilterKnown(Tail(accounts), list)
       IN IF account.mint \in list
          THEN <<[account |-> account,
                  token |-> TokenInfo(account.mint),
                  balance |-> BigIntToString(account.amount)]>> \o rest
          ELSE rest

\* getTokenAccounts that leaves out the accounts of the second query
getTokenAccountsOldOnly(old, new, list) == FilterKnown(old, list)

getTokenAccounts(old, new, list) == FilterKnown(old \o new, list)

\* ---- findQuotes ------------------------------------------------------------
FqEvent(cb, i, arg) == [cb |-> cb, br |-> i, arg |-> arg, late |-> fqPc = "resolved"]

AssetId(i) == assets[i].token.address

IdleBranch == [st |-> "idle", quote |-> "none", swap |-> "none", amount |-> 0]

\* FanOutDone when every quoteGet is awaited before the next element of
\* assets.map starts: a response can be handled during the fan-out
FanOutDoneEarly == fqPc \in {"fanout", "await", "resolved"}

FanOutDone == fqPc \in {"await", "resolved"}

\* ScanFails without the outer try: the rejection reaches the caller
ScanFailsRethrown(query) ==
  /\ fqPc' = "rejected"
  /\ fqCaught' = query

\* a ledger query of getTokenAccounts rejects: the await in findQuotes throws
\* into the outer catch, which logs; findQuotes' promise resolves
ScanFails(query) ==
  /\ fqPc' = "resolved"
  /\ fqCaught' = query

\* first ledger query of getTokenAccounts
ScanOld ==
  /\ fqPc = "scanOld"
  /\ \/ fqPc' = "scanNew" /\ UNCHANGED fqCaught
     \/ ScanFails("accountsOld")
  /\ UNCHANGED <<accountsOld, accountsNew, tokenList, assets, fqNext, branch, fqCalls>>
  /\ UNCHANGED swVars
  /\ UNCHANGED thrown

\* second ledger query; on success the filter runs and Promise.all(assets.map) starts
ScanNew ==
  /\ fqPc = "scanNew"
  /\ \/ LET found == getTokenAccounts(accountsOld, accountsNew, tokenList)
        IN /\ assets' = found
           /\ branch' = [i \in 1..Len(found) |-> IdleBranch]
           /\ fqNext' = 1
           /\ fqPc' = IF found = <<>> THEN "await" ELSE "fanout"
           /\ UNCHANGED fqCaught
     \/ /\ ScanFails("accountsNew")
        /\ UNCHANGED <<assets, branch, fqNext>>
  /\ UNCHANGED <<accountsOld, accountsNew, tokenList, fqCalls>>
  /\ UNCHANGED swVars
  /\ UNCHANGED thrown

\* the arrow function of assets.map, up to `await quoteApi.quoteGet`
StartBranchResult(i, t) ==
  IF t
  THEN [st |-> "rejected", quote |-> "none", swap |-> "none", amount |-> 0]
  ELSE [st |-> "running", quote |-> "pending", swap |-> "none",
        amount |-> StringToNumber(assets[i].balance)]

StartBranch ==
  /\ fqPc = "fanout"
  /\ \E t \in BOOLEAN :
       /\ t => Budget >= 1
       /\ branch' = [branch EXCEPT ![fqNext] = StartBranchResult(fqNext, t)]
       /\ thrown' = thrown + (IF t THEN 1 ELSE 0)
  /\ fqCalls' = [fqCalls EXCEPT ![AssetId(fqNext)] =
                    Append(@, FqEvent("onAssetFound", fqNext, ""))]
  /\ fqNext' = fqNext + 1
  /\ fqPc' = IF fqNext = Len(assets) THEN "await" ELSE "fanout"
  /\ UNCHANGED <<accountsOld, accountsNew, tokenList, assets, fqCaught>>
  /\ UNCHANGED swVars

\* QuoteHandler with foundSwapCallback called where foundQuoteCallback belongs
QuoteHandlerSwapFirst(i, ok, t1, t2) ==
  IF ok /\ ~t1
  THEN [evs |-> <<FqEvent("onSwap", i, "")>>,
        br |-> [branch[i] EXCEPT !.quote = "ok", !.swap = "pending"]]
  ELSE [evs |-> (IF ok THEN <<FqEvent("onSwap", i, "")>> ELSE <<>>)
                  \o <<FqEvent("onError", i, QuoteReason)>>,
        br |-> [branch[i] EXCEPT !.quote = IF ok THEN "ok" ELSE "fail",
                                 !.st = IF t2 THEN "rejected" ELSE "fulfilled"]]

\* QuoteHandler whose quote failure is reported but does not end the branch
QuoteHandlerNoBoundary(i, ok, t1, t2) ==
  IF ~t1 /\ ~t2
  THEN [evs |-> <<FqEvent(IF ok THEN "onQuote" ELSE "onError", i,
                          IF ok THEN "" ELSE QuoteReason)>>,
        br |-> [branch[i] EXCEPT !.quote = IF ok THEN "ok" ELSE "fail",
                                 !.swap = "pending"]]
  ELSE [evs |-> (IF ok THEN <<FqEvent("onQuote", i, "")>> ELSE <<>>)
                  \o <<FqEvent("onError", i, QuoteReason)>>,
        br |-> [branch[i] EXCEPT !.quote = IF ok THEN "ok" ELSE "fail",
                                 !.st = IF t2 THEN "rejected" ELSE "fulfilled"]]

\* QuoteHandler that goes silent once a sibling's quote has failed
QuoteHandlerSharedAbort(i, ok, t1, t2) ==
  IF ok /\ ~t1
  THEN [evs |-> IF \E j \in DOMAIN branch : j # i /\ branch[j].quote = "fail"
                THEN <<>> ELSE <<FqEvent("onQuote", i, "")>>,
        br |-> [branch[i] EXCEPT !.quote = "ok", !.swap = "pending"]]
  ELSE [evs |-> (IF ok THEN <<FqEvent("onQuote", i, "")>> ELSE <<>>)
                  \o <<FqEvent("onError", i, QuoteReason)>>,
        br |-> [branch[i] EXCEPT !.quote = IF ok THEN "ok" ELSE "fail",
                                 !.st = IF t2 THEN "rejected" ELSE "fulfilled"]]

\* QuoteHandler with a policy of requesting no swap payload for an amount of 0
QuoteHandlerSkipsZero(i, ok, t1, t2) ==
  IF ok /\ ~t1
  THEN [evs |-> <<FqEvent("onQuote", i, "")>>,
        br |-> IF branch[i].amount = 0
               THEN [branch[i] EXCEPT !.quote = "ok", !.st = "fulfilled"]
               ELSE [branch[i] EXCEPT !.quote = "ok", !.swap = "pending"]]
  ELSE [evs |-> (IF ok THEN <<FqEvent("onQuote", i, "")>> ELSE <<>>)
                  \o <<FqEvent("onError", i, QuoteReason)>>,
        br |-> [branch[i] EXCEPT !.quote = IF ok THEN "ok" ELSE "fail",
                                 !.st = IF t2 THEN "rejected" ELSE "fulfilled"]]

\* continuation after `await quoteApi.quoteGet`: ok = the request succeeded,
\* t1 = foundQuoteCallback throws, t2 = errorCallback throws
QuoteHandler(i, ok, t1, t2) ==
  IF ok /\ ~t1
  THEN [evs |-> <<FqEvent("onQuote", i, "")>>,
        br |-> [branch[i] EXCEPT !.quote = "ok", !.swap = "pending"]]
  ELSE [evs |-> (IF ok THEN <<FqEvent("onQuote", i, "")>> ELSE <<>>)
                  \o <<FqEvent("onError", i, QuoteReason)>>,
        br |-> [branch[i] EXCEPT !.quote = IF ok THEN "ok" ELSE "fail",
                                 !.st = IF t2 THEN "rejected" ELSE "fulfilled"]]

QuoteResponse(i) ==
  /\ FanOutDone
  /\ branch[i].quote = "pending"
  /\ \E ok, t1, t2 \in BOOLEAN :
       /\ t1 => ok
       /\ t2 => (~ok \/ t1)
       /\ (IF t1 THEN 1 ELSE 0) + (IF t2 THEN 1 ELSE 0) <= Budget
       /\ LET r == QuoteHandler(i, ok, t1, t2)
          IN /\ branch' = [branch EXCEPT ![i] = r.br]
             /\ fqCalls' = [fqCalls EXCEPT ![AssetId(i)] = @ \o r.evs]
       /\ thrown' = thrown + (IF t1 THEN 1 ELSE 0) + (IF t2 THEN 1 ELSE 0)
  /\ UNCHANGED <<accountsOld, accountsNew, tokenList, fqPc, assets, fqNext, fqCaught>>
  /\ UNCHANGED swVars

\* SwapHandler whose error report is not confined to the catch: it follows
\* foundSwapCallback as well
SwapHandlerAlwaysReports(i, ok, t1, t2, t3) ==
  [evs |-> (IF ok THEN <<FqEvent("onSwap", i, "")>> ELSE <<>>)
             \o <<FqEvent("onError", i, SwapReason)>>
             \o (IF t2 THEN <<FqEvent("onError", i, QuoteReason)>> ELSE <<>>),
   br |-> [branch[i] EXCEPT !.swap = IF ok THEN "ok" ELSE "fail",
                            !.st = IF t3 THEN "rejected" ELSE "fulfilled"]]

\* continuation after `await quoteApi.swapPost`: ok = the request succeeded,
\* t1 = foundSwapCallback throws, t2 = errorCallback (swap reason) throws,
\* t3 = errorCallback (quote reason, outer catch) throws
SwapHandler(i, ok, t1, t2, t3) ==
  [evs |-> (IF ok THEN <<FqEvent("onSwap", i, "")>> ELSE <<>>)
             \o (IF ~ok \/ t1 THEN <<FqEvent("onError", i, SwapReason)>> ELSE <<>>)
             \o (IF t2 THEN <<FqEvent("onError", i, QuoteReason)>> ELSE <<>>),
   br |-> [branch[i] EXCEPT !.swap = IF ok THEN "ok" ELSE "fail",
                            !.st = IF t3 THEN "rejected" ELSE "fulfilled"]]

SwapResponse(i) ==
  /\ FanOutDone
  /\ branch[i].swap = "pending"
  /\ \E ok, t1, t2, t3 \in BOOLEAN :
       /\ t1 => ok
       /\ t2 => (~ok \/ t1)
       /\ t3 => t2
       /\ (IF t1 THEN 1 ELSE 0) + (IF t2 THEN 1 ELSE 0) + (IF t3 THEN 1 ELSE 0) <= Budget
       /\ LET r == SwapHandler(i, ok, t1, t2, t3)
          IN /\ branch' = [branch EXCEPT ![i] = r.br]
             /\ fqCalls' = [fqCalls EXCEPT ![AssetId(i)] = @ \o r.evs]
       /\ thrown' = thrown + (IF t1 THEN 1 ELSE 0) + (IF t2 THEN 1 ELSE 0)
                           + (IF t3 THEN 1 ELSE 0)
  /\ UNCHANGED <<accountsOld, accountsNew, tokenList, fqPc, assets, fqNext, fqCaught>>
  /\ UNCHANGED swVars

\* AllSettles as Promise.race would settle: with the first branch that ends
AllSettlesFirst(brs) ==
  \/ brs = <<>>
  \/ \E i \in DOMAIN brs : brs[i].st \in {"fulfilled", "rejected"}

\* Promise.all settles: every branch fulfilled, or some branch rejected
\* (then the outer catch logs); either way findQuotes' promise resolves
AllSettles(brs) ==
  \/ \A i \in DOMAIN brs : brs[i].st = "fulfilled"
  \/ \E i \in DOMAIN brs : brs[i].st = "rejected"

FindQuotesReturns ==
  /\ fqPc = "await"
  /\ AllSettles(branch)
  /\ fqPc' = "resolved"
  /\ fqCaught' = IF \E i \in DOMAIN branch : branch[i].st = "rejected"
                 THEN "branch" ELSE fqCaught
  /\ UNCHANGED <<accountsOld, accountsNew, tokenList, assets, fqNext, branch, fqCalls>>
  /\ UNCHANGED swVars
  /\ UNCHANGED thrown

\* ---- sweepTokens -----------------------------------------------------------
SwEvent(cb, i, arg) ==
  [cb |-> cb, br |-> i, arg |-> arg, late |-> swPc \in {"resolved", "rejected"}]

\* `asset.asset.balance == 0n` on the decimal string the scan produced
IsZeroBalance(balance) == StringToNumber(balance) = 0

\* body of assets.forEach for the k-th asset: the closeAccountTx it builds
CloseAccountTxs(as, w, k) ==
  IF as[k].checked /\ w.publicKey /\ (as[k].swap # "none" \/ IsZeroBalance(as[k].asset.balance))
  THEN <<[closes |-> k]>>
  ELSE <<>>

\* Pushed without the test of asset.checked
PushedUnchecked(as, w, k) ==
  IF w.publicKey /\ as[k].swap # "none"
  THEN <<[id |-> as[k].asset.token.address, transaction |-> [swapOf |-> k]]>>
  ELSE <<>>

\* Pushed that also enqueues the closure of an approved asset with zero balance
\* and no swap payload
PushedWithClosure(as, w, k) ==
  IF as[k].checked /\ w.publicKey /\ as[k].swap # "none"
  THEN <<[id |-> as[k].asset.token.address, transaction |-> [swapOf |-> k]]>>
  ELSE IF as[k].checked /\ w.publicKey /\ IsZeroBalance(as[k].asset.balance)
       THEN <<[id |-> as[k].asset.token.address, transaction |-> [closes |-> k]]>>
       ELSE <<>>

\* body of assets.forEach for the k-th asset: what it pushes on transactions
Pushed(as, w, k) ==
  IF as[k].checked /\ w.publicKey /\ as[k].swap # "none"
  THEN <<[id |-> as[k].asset.token.address, transaction |-> [swapOf |-> k]]>>
  ELSE <<>>

\* assets.forEach from the k-th asset on: the transactions list it leaves
RECURSIVE ForEachPushed(_, _, _)
ForEachPushed(as, w, k) ==
  IF k > Len(as) THEN <<>> ELSE Pushed(as, w, k) \o ForEachPushed(as, w, k + 1)

\* assets.forEach from the k-th asset on: the closure transactions it builds
RECURSIVE ForEachClose(_, _, _)
ForEachClose(as, w, k) ==
  IF k > Len(as) THEN <<>> ELSE CloseAccountTxs(as, w, k) \o ForEachClose(as, w, k + 1)

\* CanSign for a wallet taken to sign whatever it exposes
CanSignAlways(w) == TRUE

\* `if (wallet.signAllTransactions)`
CanSign(w) == w.signAllTransactions

\* continuation after `await connection.getLatestBlockhash()`: the forEach,
\* then the call of wallet.signAllTransactions when the wallet has one
BlockhashResponse ==
  /\ swPc = "blockhash"
  /\ \/ LET txs == ForEachPushed(swAssets, wallet, 1)
        IN /\ blockHash' = "fetched"
           /\ transactions' = txs
           /\ closeTxs' = ForEachClose(swAssets, wallet, 1)
           /\ IF CanSign(wallet)
              THEN /\ signReqs' = Append(signReqs, [k \in 1..Len(txs) |-> txs[k].transaction])
                   /\ swPc' = "sign"
              ELSE /\ signReqs' = signReqs
                   /\ swPc' = "resolved"
     \/ /\ swPc' = "rejected"     \* the await is outside every try
        /\ blockHash' = "failed"
        /\ UNCHANGED <<transactions, closeTxs, signReqs>>
  /\ UNCHANGED <<wallet, swAssets, signed, swNext, submit, swCalls>>
  /\ UNCHANGED fqVars
  /\ UNCHANGED thrown

IdleSubmit == [st |-> "idle", send |-> "none"]

\* ReportSigningError reporting once per transaction of the batch, by its id
ReportSigningErrorPerTransaction(calls) ==
  [id \in DOMAIN calls |->
     IF \E k \in 1..Len(transactions) : transactions[k].id = id
     THEN Append(calls[id], SwEvent("error", 0, SignReason))
     ELSE calls[id]]

\* the catch around the signing and the Promise.all
ReportSigningError(calls) ==
  [calls EXCEPT ![NoId] = Append(@, SwEvent("error", 0, SignReason))]

\* continuation after `await wallet.signAllTransactions`: the signer answers
\* with one signed transaction per transaction of the batch, in order
SignResponse ==
  /\ swPc = "sign"
  /\ \/ /\ signed' = "ok"
        /\ submit' = [i \in 1..Len(transactions) |-> IdleSubmit]
        /\ swNext' = 1
        /\ swPc' = IF transactions = <<>> THEN "await" ELSE "fanout"
        /\ UNCHANGED <<swCalls, thrown>>
     \/ \E t \in BOOLEAN :
          /\ t => Budget >= 1
          /\ signed' = "fail"
          /\ swCalls' = ReportSigningError(swCalls)
          /\ swPc' = IF t THEN "rejected" ELSE "resolved"
          /\ thrown' = thrown + (IF t THEN 1 ELSE 0)
          /\ UNCHANGED <<submit, swNext>>
  /\ UNCHANGED <<wallet, swAssets, blockHash, transactions, closeTxs, signReqs>>
  /\ UNCHANGED fqVars

\* the arrow function of signedTransactions.map, up to
\* `await sendAndConfirmRawTransaction`; t = the state callback throws
StartSubmitResult(t) ==
  IF t THEN [st |-> "rejected", send |-> "none"]
  ELSE [st |-> "running", send |-> "inflight"]

StartSubmit ==
  /\ swPc = "fanout"
  /\ \E t \in BOOLEAN :
       /\ t => Budget >= 1
       /\ submit' = [submit EXCEPT ![swNext] = StartSubmitResult(t)]
       /\ thrown' = thrown + (IF t THEN 1 ELSE 0)
  /\ swCalls' = [swCalls EXCEPT ![transactions[swNext].id] =
                    Append(@, SwEvent("state", swNext, "Scooping"))]
  /\ swNext' = swNext + 1
  /\ swPc' = IF swNext = Len(transactions) THEN "await" ELSE "fanout"
  /\ UNCHANGED <<wallet, swAssets, blockHash, transactions, closeTxs, signReqs, signed>>
  /\ UNCHANGED fqVars

\* SubmitHandler that gives up a transaction once a sibling's submission failed
SubmitHandlerFailFast(i, ok, t1, t2, t3) ==
  LET good == ok /\ ~\E j \in DOMAIN submit : j # i /\ submit[j].send = "fail"
  IN [evs |-> (IF good THEN <<SwEvent("state", i, "Scooped")>> ELSE <<>>)
                \o (IF ~good \/ t1 THEN <<SwEvent("state", i, "Error")>> ELSE <<>>)
                \o (IF (~good \/ t1) /\ ~t2 THEN <<SwEvent("error", i, "err")>> ELSE <<>>),
      sub |-> [st |-> IF t2 \/ t3 THEN "rejected" ELSE "fulfilled",
               send |-> IF ok THEN "ok" ELSE "fail"]]

\* SubmitHandler with the 'Scooped' notification moved after the try statement
SubmitHandlerScoopedAfterTry(i, ok, t1, t2, t3) ==
  [evs |-> (IF ~ok THEN <<SwEvent("state", i, "Error"), SwEvent("error", i, "err")>>
            ELSE <<>>)
             \o <<SwEvent("state", i, "Scooped")>>,
   sub |-> [st |-> IF t1 \/ t2 \/ t3 THEN "rejected" ELSE "fulfilled",
            send |-> IF ok THEN "ok" ELSE "fail"]]

\* SubmitHandler whose catch calls errorCallback before reporting 'Error'
SubmitHandlerErrorFirst(i, ok, t1, t2, t3) ==
  [evs |-> (IF ok THEN <<SwEvent("state", i, "Scooped")>> ELSE <<>>)
             \o (IF ~ok \/ t1 THEN <<SwEvent("error", i, "err")>> ELSE <<>>)
             \o (IF (~ok \/ t1) /\ ~t2 THEN <<SwEvent("state", i, "Error")>> ELSE <<>>),
   sub |-> [st |-> IF t2 \/ t3 THEN "rejected" ELSE "fulfilled",
            send |-> IF ok THEN "ok" ELSE "fail"]]

\* continuation after `await sendAndConfirmRawTransaction`: ok = it succeeded,
\* t1 = the 'Scooped' state callback throws, t2 = the 'Error' state callback
\* throws, t3 = errorCallback throws
SubmitHandler(i, ok, t1, t2, t3) ==
  [evs |-> (IF ok THEN <<SwEvent("state", i, "Scooped")>> ELSE <<>>)
             \o (IF ~ok \/ t1 THEN <<SwEvent("state", i, "Error")>> ELSE <<>>)
             \o (IF (~ok \/ t1) /\ ~t2 THEN <<SwEvent("error", i, "err")>> ELSE <<>>),
   sub |-> [st |-> IF t2 \/ t3 THEN "rejected" ELSE "fulfilled",
            send |-> IF ok THEN "ok" ELSE "fail"]]

SubmitResponse(i) ==
  /\ swPc \in {"await", "resolved", "rejected"}
  /\ submit[i].send = "inflight"
  /\ \E ok, t1, t2, t3 \in BOOLEAN :
       /\ t1 => ok
       /\ t2 => (~ok \/ t1)
       /\ t3 => ((~ok \/ t1) /\ ~t2)
       /\ (IF t1 THEN 1 ELSE 0) + (IF t2 THEN 1 ELSE 0) + (IF t3 THEN 1 ELSE 0) <= Budget
       /\ LET r == SubmitHandler(i, ok, t1, t2, t3)
          IN /\ submit' = [submit EXCEPT ![i] = r.sub]
             /\ swCalls' = [swCalls EXCEPT ![transactions[i].id] = @ \o r.evs]
       /\ thrown' = thrown + (IF t1 THEN 1 ELSE 0) + (IF t2 THEN 1 ELSE 0)
                           + (IF t3 THEN 1 ELSE 0)
  /\ UNCHANGED <<wallet, swAssets, swPc, blockHash, transactions, closeTxs, signReqs, signed,
               swNext>>
  /\ UNCHANGED fqVars

\* Promise.all settles.  All fulfilled: sweepTokens returns.  One rejected:
\* the catch around the signing reports it with the empty id
SweepTokensReturns ==
  /\ swPc = "await"
  /\ AllSettles(submit)
  /\ IF \E i \in DOMAIN submit : submit[i].st = "rejected"
     THEN \E t \in BOOLEAN :
            /\ t => Budget >= 1
            /\ swCalls' = ReportSigningError(swCalls)
            /\ swPc' = IF t THEN "rejected" ELSE "resolved"
            /\ thrown' = thrown + (IF t THEN 1 ELSE 0)
     ELSE /\ swPc' = "resolved"
          /\ UNCHANGED <<swCalls, thrown>>
  /\ UNCHANGED <<wallet, swAssets, blockHash, transactions, closeTxs, signReqs, signed, swNext,
               submit>>
  /\ UNCHANGED fqVars

\* ---- initial states --------------------------------------------------------
Accounts == [mint : Mints, amount : Amounts]

Ids == Mints \cup Range(SweepIds) \cup {NoId}

FqIdle ==
  /\ accountsOld = <<>>
  /\ accountsNew = <<>>
  /\ tokenList = {}
  /\ fqPc = "resolved"
  /\ assets = <<>>
  /\ fqNext = 1
  /\ branch = <<>>
  /\ fqCalls = [id \in Ids |-> <<>>]
  /\ fqCaught = "none"

SwIdle ==
  /\ wallet = [publicKey |-> FALSE, signAllTransactions |-> FALSE]
  /\ swAssets = <<>>
  /\ swPc = "resolved"
  /\ blockHash = "none"
  /\ transactions = <<>>
  /\ closeTxs = <<>>
  /\ signReqs = <<>>
  /\ signed = "none"
  /\ swNext = 1
  /\ submit = <<>>
  /\ swCalls = [id \in Ids |-> <<>>]

\* mint addresses are opaque keys: of the wallets that differ only by a
\* renaming of the mints, the one whose first account holds "mA" is drawn
FirstMint(old, new) == IF old \o new = <<>> THEN TRUE ELSE Head(old \o new).mint = "mA"

InitQuotes ==
  /\ accountsOld \in SeqsUpTo(Accounts, MaxAccounts)
  /\ accountsNew \in SeqsUpTo(Accounts, MaxAccounts)
  /\ Len(accountsOld) + Len(accountsNew) <= MaxAccounts
  /\ FirstMint(accountsOld, accountsNew)
  /\ tokenList \in SUBSET Mints
  /\ fqPc = "scanOld"
  /\ assets = <<>>
  /\ fqNext = 1
  /\ branch = <<>>
  /\ fqCalls = [id \in Ids |-> <<>>]
  /\ fqCaught = "none"
  /\ SwIdle
  /\ thrown = 0

NextQuotes ==
  \/ ScanOld
  \/ ScanNew
  \/ StartBranch
  \/ \E i \in DOMAIN branch : QuoteResponse(i)
  \/ \E i \in DOMAIN branch : SwapResponse(i)
  \/ FindQuotesReturns

SpecQuotes == InitQuotes /\ [][NextQuotes]_vars

\* getTokenAccounts alone: the two ledger queries and the filter
NextScan ==
  \/ ScanOld
  \/ ScanNew

SpecScan == InitQuotes /\ [][NextScan]_vars

\* token addresses are opaque keys: of the inputs that differ only by a
\* renaming of the addresses, the one naming them in order of first use is drawn
IdIndex(id) == CHOOSE n \in 1..Len(SweepIds) : SweepIds[n] = id

FirstUseOrder(as, a) ==
  \/ IdIndex(a.asset.token.address) = 1
  \/ \E j \in 1..Len(as) :
       IdIndex(as[j].asset.token.address) + 1 >= IdIndex(a.asset.token.address)

SweepAssets ==
  [asset : [token : {TokenInfo(m) : m \in Range(SweepIds)},
            balance : {BigIntToString(n) : n \in Amounts}],
   swap : {"none", "swapTransaction"},
   checked : BOOLEAN]

RECURSIVE SweepInputs(_)
SweepInputs(n) ==
  IF n = 0 THEN {<<>>}
  ELSE LET shorter == SweepInputs(n - 1)
       IN shorter \cup
          UNION {{Append(as, a) : a \in {x \in SweepAssets : FirstUseOrder(as, x)}} :
                   as \in {t \in shorter : Len(t) = n - 1}}

\* three approved assets with swap payloads, of three tokens, and a wallet
\* that can sign
ThreeApproved ==
  {as \in [1..3 -> SweepAssets] :
     \A k \in 1..3 : /\ as[k].checked
                      /\ as[k].swap # "none"
                      /\ as[k].asset.token.address = SweepIds[k]}

InitSweep ==
  /\ \/ /\ wallet \in [publicKey : BOOLEAN, signAllTransactions : BOOLEAN]
        /\ swAssets \in SweepInputs(MaxAssets)
     \/ /\ wallet = [publicKey |-> TRUE, signAllTransactions |-> TRUE]
        /\ swAssets \in ThreeApproved
  /\ swPc = "blockhash"
  /\ blockHash = "none"
  /\ transactions = <<>>
  /\ closeTxs = <<>>
  /\ signReqs = <<>>
  /\ signed = "none"
  /\ swNext = 1
  /\ submit = <<>>
  /\ swCalls = [id \in Ids |-> <<>>]
  /\ FqIdle
  /\ thrown = 0

NextSweep ==
  \/ BlockhashResponse
  \/ SignResponse
  \/ StartSubmit
  \/ \E i \in DOMAIN submit : SubmitResponse(i)
  \/ SweepTokensReturns

SpecSweep == InitSweep /\ [][NextSweep]_vars

\* every response arrives and every continuation runs
InitSweepLive ==
  /\ InitSweep
  /\ Len(swAssets) <= MaxLiveAssets \/ swAssets \in ThreeApproved

SpecSweepFair == InitSweepLive /\ [][NextSweep]_vars /\ WF_vars(NextSweep)

\* ---- properties of findQuotes ----------------------------------------------
\* the callbacks one element of assets.map made, in order
FqBranchCalls(i) == SelectSeq(fqCalls[AssetId(i)], LAMBDA e : e.br = i)

\* every occurrence of callback b in log comes after an occurrence of a
Precedes(log, a, b) ==
  \A k \in 1..Len(log) :
    log[k].cb = b => \E j \in 1..(k - 1) : log[j].cb = a

InOrder(log) ==
  /\ Precedes(log, "onAssetFound", "onQuote")
  /\ Precedes(log, "onQuote", "onSwap")
  /\ Precedes(log, "onAssetFound", "onError")

Called(i, cb) ==
  \E k \in 1..Len(fqCalls[AssetId(i)]) :
    fqCalls[AssetId(i)][k].br = i /\ fqCalls[AssetId(i)][k].cb = cb

\* C1: for every asset id, and for every asset, onQuote is never invoked
\* before onAssetFound, onSwap never before onQuote and onError never before
\* onAssetFound, whatever the order of the aggregator's responses.
C1_CallbackOrder ==
  /\ \A id \in Mints : InOrder(fqCalls[id])
  /\ \A i \in DOMAIN branch : InOrder(FqBranchCalls(i))

\* two assets of one run, both with their swap payload delivered
C1_Witness ==
  \E i, j \in DOMAIN branch :
    /\ i # j
    /\ Called(i, "onSwap")
    /\ Called(j, "onSwap")

\* C2: an asset whose quote request failed has onError invoked with the
\* quote-stage reason, no swap request issued and neither onQuote nor onSwap
\* invoked: its callbacks are exactly onAssetFound, onError("Couldn't get quote").
C2_QuoteFailureBoundary ==
  \A i \in DOMAIN branch :
    branch[i].quote = "fail" =>
      /\ branch[i].swap = "none"
      /\ [k \in 1..Len(FqBranchCalls(i)) |-> <<FqBranchCalls(i)[k].cb, FqBranchCalls(i)[k].arg>>]
           = << <<"onAssetFound", "">>, <<"onError", QuoteReason>> >>

\* one asset's quote failed while a sibling went on to its swap request
C2_Witness ==
  \E i, j \in DOMAIN branch :
    /\ branch[i].quote = "fail"
    /\ branch[j].swap \in {"ok", "fail"}

\* C3: whenever an asset's quote or swap request has failed and the quote and
\* swap requests of another asset have succeeded, onQuote and onSwap have been
\* invoked for that other asset, in whichever order the responses arrived.
C3_SiblingIsolation ==
  \A a, b \in DOMAIN branch :
    (/\ a # b
     /\ branch[a].quote = "fail" \/ branch[a].swap = "fail"
     /\ branch[b].quote = "ok"
     /\ branch[b].swap = "ok")
    => (Called(b, "onQuote") /\ Called(b, "onSwap"))

\* the failure of A was handled before B's quote response, and B still got
\* both callbacks
C3_Witness ==
  \E a, b \in DOMAIN branch :
    /\ a # b
    /\ branch[a].quote = "fail"
    /\ branch[b].swap = "ok"
    /\ Called(b, "onSwap")
    /\ thrown = 0

NoLateCall == \A id \in Mints : \A k \in 1..Len(fqCalls[id]) : ~fqCalls[id][k].late

HasFinalCallback(i) ==
  /\ branch[i].st = "fulfilled"
  /\ Called(i, "onSwap") \/ Called(i, "onError")

C5_ScanFailureSuppressed ==
  fqCaught \in {"accountsOld", "accountsNew"} =>
    /\ fqPc = "resolved"
    /\ assets = <<>>
    /\ branch = <<>>
    /\ \A id \in Ids : fqCalls[id] = <<>>

\* the second query failed for a wallet whose accounts would have matched
C5_Witness ==
  /\ fqCaught = "accountsNew"
  /\ getTokenAccounts(accountsOld, accountsNew, tokenList) # <<>>

\* ---- properties of sweepTokens ---------------------------------------------
\* the callbacks made for one signed transaction, in order
SwBranchCalls(i) == SelectSeq(swCalls[transactions[i].id], LAMBDA e : e.br = i)

\* the states reported in a log, in order
StatesIn(log) ==
  LET st == SelectSeq(log, LAMBDA e : e.cb = "state")
  IN [k \in 1..Len(st) |-> st[k].arg]

Occurrences(id) == {k \in 1..Len(swAssets) : swAssets[k].asset.token.address = id}

\* C6: when the batched signing request has failed, no transaction was
\* submitted, no callback was invoked with an asset's id, and the error
\* callback was invoked exactly once, with the empty id.
C6_SigningFailureAborts ==
  signed = "fail" =>
    /\ submit = <<>>
    /\ \A id \in Ids \ {NoId} : swCalls[id] = <<>>
    /\ Len(swCalls[NoId]) = 1
    /\ swCalls[NoId][1].cb = "error"

\* signing failed for a batch of two transactions or more
C6_Witness ==
  /\ signed = "fail"
  /\ Len(transactions) >= 2

StateMachineRuns == {<<>>, <<"Scooping">>, <<"Scooping", "Scooped">>, <<"Scooping", "Error">>}

Terminal(i) ==
  \E k \in 1..Len(SwBranchCalls(i)) :
    /\ SwBranchCalls(i)[k].cb = "state"
    /\ SwBranchCalls(i)[k].arg \in {"Scooped", "Error"}

ResolvedOnlyWhenSettled ==
  swPc = "resolved" =>
    \A i \in DOMAIN submit : submit[i].send \in {"ok", "fail"} /\ Terminal(i)

Merged == accountsOld \o accountsNew

InDirectory(account) == account.mint \in tokenList

ScanReturned == fqPc \in {"fanout", "await"} \/ (fqPc = "resolved" /\ fqCaught \in {"none", "branch"})

\* C11: what getTokenAccounts returns is, in order, the accounts of the first
\* query followed by those of the second, restricted to the accounts whose
\* mint is a key of the directory; every entry carries the directory's
\* descriptor of that mint and, as a decimal string, the account's raw amount.
C11_ScanReturnsKnownSubset ==
  ScanReturned =>
    /\ [i \in 1..Len(assets) |-> assets[i].account] = SelectSeq(Merged, InDirectory)
    /\ \A i \in 1..Len(assets) :
         /\ assets[i].account.mint \in tokenList
         /\ assets[i].token.address = assets[i].account.mint
         /\ StringToNumber(assets[i].balance) = assets[i].account.amount

\* a scan that kept an account of the second query with a non-zero amount and
\* discarded an account of the first
C11_Witness ==
  /\ ScanReturned
  /\ accountsOld # <<>>
  /\ Len(assets) < Len(Merged)
  /\ \E i \in 1..Len(assets) :
       /\ assets[i].account \in Range(accountsNew)
       /\ ~(assets[i].account \in Range(accountsOld))
       /\ StringToNumber(assets[i].balance) = 50

\* ---- more properties of sweepTokens ------------------------------------------
\* approved, without a swap payload, with a zero balance: an account to close
ClosureOnly(k) ==
  /\ swAssets[k].checked
  /\ swAssets[k].swap = "none"
  /\ IsZeroBalance(swAssets[k].asset.balance)

\* C12: in a sweep of an approved asset with a swap payload and an approved
\* asset with zero balance and no swap payload, once the sweep has resolved
\* after a successful signing, a transaction for the zero-balance asset was
\* part of the signed batch and 'Scooped' or 'Error' was reported for its id.
C12_ClosureSubmitted ==
  (swPc = "resolved" /\ signed = "ok" /\ wallet.publicKey /\ thrown = 0) =>
    \A k \in 1..Len(swAssets) :
      (ClosureOnly(k) /\ \E x \in 1..Len(swAssets) :
                           swAssets[x].checked /\ swAssets[x].swap # "none")
        => /\ \E b \in 1..Len(signReqs) : \E j \in 1..Len(signReqs[b]) :
                signReqs[b][j] \in {[swapOf |-> k], [closes |-> k]}
           /\ \E j \in 1..Len(swCalls[swAssets[k].asset.token.address]) :
                LET e == swCalls[swAssets[k].asset.token.address][j]
                IN e.cb = "state" /\ e.arg \in {"Scooped", "Error"}

\* ---- more properties of findQuotes ---------------------------------------------
ZeroBalanceAssets == {i \in DOMAIN branch : IsZeroBalance(assets[i].balance)}

\* C13 as stated: no swap-payload request is ever issued for an asset whose
\* scanned balance is zero.
C13_Original == \A i \in ZeroBalanceAssets : branch[i].swap = "none"

\* C13 amended: an asset whose scanned balance is zero is handled like any
\* other: its quote is requested for the amount 0, a swap-payload request is
\* issued for it only after its quote request succeeded and onQuote was
\* invoked, and, when no callback throws, whenever its quote request succeeded.
C13_ZeroBalanceSwapFollowsQuote ==
  \A i \in DOMAIN branch :
    (branch[i].quote # "none" \/ branch[i].swap # "none") =>
      (IsZeroBalance(assets[i].balance) =>
         /\ branch[i].amount = 0
         /\ branch[i].swap # "none" => branch[i].quote = "ok" /\ Called(i, "onQuote")
         /\ (thrown = 0 /\ branch[i].quote = "ok") => branch[i].swap # "none")

\* a zero-balance asset whose swap payload was requested and delivered
C13_Witness ==
  \E i \in ZeroBalanceAssets : branch[i].swap = "ok" /\ Called(i, "onSwap")

\* C14: for every signed transaction whose submit-and-confirm succeeded,
\* transactionIdCallback was invoked with the asset's id (and the transaction
\* id the submission returned).
C14_TransactionIdReported ==
  \A i \in DOMAIN submit :
    submit[i].send = "ok" =>
      \E k \in 1..Len(SwBranchCalls(i)) : SwBranchCalls(i)[k].cb = "txid"

FoundCalls(id) == SelectSeq(fqCalls[id], LAMBDA e : e.cb = "onAssetFound")

\* C15: every asset's id is its token descriptor's address, no two assets
\* produced by one scan share an id, and onAssetFound is never invoked twice
\* with the same id.
C15_UniqueIds ==
  /\ \A i \in DOMAIN assets : AssetId(i) = assets[i].account.mint
  /\ \A i, j \in DOMAIN assets : i # j => AssetId(i) # AssetId(j)
  /\ \A id \in Ids : Len(FoundCalls(id)) <= 1

\* the positions of a signed transaction's log where errorCallback was invoked
ErrorCalls(i) == {k \in 1..Len(SwBranchCalls(i)) : SwBranchCalls(i)[k].cb = "error"}

ErrorPairedWithState ==
  /\ \A i \in DOMAIN submit :
       /\ ErrorCalls(i) # {} => submit[i].send = "fail"
       /\ submit[i].send = "fail" => Cardinality(ErrorCalls(i)) = 1
       /\ \A k \in ErrorCalls(i) :
            \E j \in 1..(k - 1) : /\ SwBranchCalls(i)[j].cb = "state"
                                  /\ SwBranchCalls(i)[j].arg = "Error"
       /\ (\E j \in 1..Len(SwBranchCalls(i)) : SwBranchCalls(i)[j].arg = "Scooped")
            => ErrorCalls(i) = {}
  /\ \A id \in Ids \ {NoId} : \A k \in 1..Len(swCalls[id]) :
       swCalls[id][k].cb = "error" => swCalls[id][k].br \in DOMAIN submit

ApprovedWithSwap ==
  SelectSeq([k \in 1..Len(swAssets) |-> k],
            LAMBDA k : swAssets[k].checked /\ swAssets[k].swap # "none")

BatchOf(positions) == [j \in 1..Len(positions) |-> [swapOf |-> positions[j]]]

SingleBatch ==
  /\ Len(signReqs) <= 1
  /\ signReqs # <<>> => swPc # "blockhash"
  /\ \A b \in 1..Len(signReqs) :
       signReqs[b] = [j \in 1..Len(transactions) |-> transactions[j].transaction]
  /\ \A j \in 1..Len(transactions) : \E k \in 1..Len(swAssets) :
       transactions[j] = [id |-> swAssets[k].asset.token.address,
                          transaction |-> [swapOf |-> k]]
  /\ \A i \in DOMAIN submit : \A id \in Ids : \A k \in 1..Len(swCalls[id]) :
       swCalls[id][k].br = i => id = transactions[i].id

\* C17 as stated: at most one signing request is made, after the forEach;
\* its batch is exactly the swap transactions of the approved assets that
\* have a swap payload, in input order, each keyed by its asset's token
\* address, and no closure transaction; the callbacks of the i-th signed
\* transaction carry the id of the i-th enqueued asset.
C17_Original ==
  /\ SingleBatch
  /\ \A b \in 1..Len(signReqs) : signReqs[b] = BatchOf(ApprovedWithSwap)

\* C17 amended: the same, the batch being that of the approved assets with a
\* swap payload when the wallet has a public key, and empty when it has none.
C17_SingleBatchInOrder ==
  /\ SingleBatch
  /\ \A b \in 1..Len(signReqs) :
       signReqs[b] = IF wallet.publicKey THEN BatchOf(ApprovedWithSwap) ELSE <<>>

\* a signed batch whose first transaction is the swap of the second input
\* asset, the first being an approved zero-balance asset without swap payload
\* whose closure was built, with the callbacks of that transaction made
C17_Witness ==
  /\ Len(signReqs) = 1
  /\ signReqs[1] = <<[swapOf |-> 2]>>
  /\ ClosureOnly(1)
  /\ closeTxs = <<[closes |-> 1], [closes |-> 2]>>
  /\ StatesIn(SwBranchCalls(1)) = <<"Scooping", "Scooped">>

\* the callbacks one asset's branch made, as <<callback, argument>> pairs
FqTrace(i) == [k \in 1..Len(FqBranchCalls(i)) |->
                 <<FqBranchCalls(i)[k].cb, FqBranchCalls(i)[k].arg>>]

FinalCalls(i) ==
  {k \in 1..Len(FqBranchCalls(i)) : FqBranchCalls(i)[k].cb \in {"onSwap", "onError"}}

\* C18: while no callback has thrown, an asset's branch has made at most one
\* of onSwap and onError, at most once; a branch that has ended made
\* onAssetFound, onQuote, onSwap when both requests succeeded, onAssetFound,
\* onQuote, onError (swap reason) when the swap request failed, onAssetFound,
\* onError (quote reason) when the quote request failed; and when findQuotes
\* has resolved every branch has ended.
C18_OneFinalEvent ==
  thrown = 0 =>
    /\ \A i \in DOMAIN branch :
         /\ Cardinality(FinalCalls(i)) <= 1
         /\ branch[i].st = "fulfilled" =>
              FqTrace(i) =
                IF branch[i].quote = "fail"
                THEN <<<<"onAssetFound", "">>, <<"onError", QuoteReason>>>>
                ELSE IF branch[i].swap = "fail"
                THEN <<<<"onAssetFound", "">>, <<"onQuote", "">>, <<"onError", SwapReason>>>>
                ELSE <<<<"onAssetFound", "">>, <<"onQuote", "">>, <<"onSwap", "">>>>
         /\ branch[i].st = "fulfilled" =>
              \/ branch[i].quote = "fail" /\ branch[i].swap = "none"
              \/ branch[i].quote = "ok" /\ branch[i].swap \in {"ok", "fail"}
    /\ (fqPc = "resolved" /\ fqCaught = "none") =>
         \A i \in DOMAIN branch : branch[i].st = "fulfilled"

\* a resolved run with an asset of each of two outcomes
C18_Witness ==
  /\ thrown = 0
  /\ fqPc = "resolved"
  /\ \E i, j \in DOMAIN branch :
       /\ branch[i].swap = "fail" /\ Cardinality(FinalCalls(i)) = 1
       /\ branch[j].quote = "fail" /\ Cardinality(FinalCalls(j)) = 1

\* a response of the aggregator has been handled, or a callback other than
\* onAssetFound has been invoked
ResponseHandled ==
  \/ \E i \in DOMAIN branch : branch[i].quote \in {"ok", "fail"}
  \/ \E id \in Ids : fqCalls[id] # <<>> /\ \E k \in 1..Len(fqCalls[id]) :
                         fqCalls[id][k].cb # "onAssetFound"

\* the first callback of an asset's branch was onAssetFound
Found(i) ==
  LET calls == FqBranchCalls(i)
  IN calls # <<>> /\ calls[1].cb = "onAssetFound"

\* the elements of assets.map are started in the order of the scan result,
\* each with onAssetFound before anything else
FanOutInOrder ==
  \A i \in DOMAIN branch :
    LET calls == FqBranchCalls(i)
        found == calls # <<>> /\ calls[1].cb = "onAssetFound"
    IN /\ found <=> i < fqNext
       /\ calls # <<>> => found
       /\ branch[i].quote # "none" => found

\* C19 as stated: before any response is handled, onAssetFound has been
\* invoked and the quote request issued for every scanned asset, in the order
\* of the scan result; no onQuote, onSwap or onError is invoked before the
\* onAssetFound of every asset.
C19_Original ==
  /\ FanOutInOrder
  /\ ResponseHandled =>
       \A i \in DOMAIN branch : Found(i) /\ branch[i].quote # "none"

\* C19 amended: the same, the quote request being issued for every scanned
\* asset whose onAssetFound returned (a throwing onAssetFound ends its branch
\* before the request).
C19_FanOutBeforeResponses ==
  /\ FanOutInOrder
  /\ ResponseHandled =>
       \A i \in DOMAIN branch :
         /\ Found(i)
         /\ branch[i].quote # "none" \/ (branch[i].st = "rejected" /\ thrown > 0)
  /\ (fqNext > Len(assets) /\ thrown = 0) => \A i \in DOMAIN branch : branch[i].quote # "none"

\* the first response is handled: two assets were found and both their quote
\* requests are out
C19_Witness ==
  /\ Len(assets) = 2
  /\ branch[1].quote = "pending"
  /\ branch[2].quote = "fail"
  /\ Called(1, "onAssetFound") /\ ~Called(1, "onQuote")
  /\ Called(2, "onError")

NoAssetCallback == \A id \in Ids \ {NoId} : swCalls[id] = <<>>

NothingSignedOrReported ==
  /\ signReqs = <<>>
  /\ signed = "none"
  /\ submit = <<>>
  /\ \A id \in Ids : swCalls[id] = <<>>

NothingEnqueuedWithoutKey ==
  ~wallet.publicKey => transactions = <<>> /\ closeTxs = <<>> /\ NoAssetCallback

====
